---- MODULE Spec2Model ----
(***************************************************************************)
(* Model of src/setup_epl_data_lake.py: the module-level configuration     *)
(* check, the five provisioning/fetch/upload stages called by main(), and  *)
(* the cloud state (bucket, catalog database, table, stored object) that   *)
(* survives from one run of the script to the next.                        *)
(***************************************************************************)
EXTENDS Integers, Sequences, FiniteSets, TLC

\* ---------------------------------------------------------------- bounds
MaxRuns == 2      \* runs of the script against the same cloud account
MaxTeams == 2     \* length of the team list the endpoint returns

\* ------------------------------------------------------- sample API data
NL == "\n"
NoTeam == "<absent>"          \* the roster item carries no "Team" key

AllTeams ==
  << [TeamId |-> 1, Name |-> "Arsenal"],
     [TeamId |-> 2, Name |-> "Chelsea"],
     [TeamId |-> 3, Name |-> "Everton"],
     [TeamId |-> 4, Name |-> "Fulham"] >>

TeamLists == { SubSeq(AllTeams, 1, n) : n \in 0..MaxTeams }

\* a roster item whose name holds a line break and which already carries a
\* Team value of another club, and a plain one without a Team key
PlayerA == [PlayerID |-> 7, LastName |-> <<"O", NL, "K">>, Team |-> "Liverpool"]
PlayerB == [PlayerID |-> 9, LastName |-> <<"S">>, Team |-> NoTeam]

\* what a roster request of a club can return: nobody, or the club's players
ClubRoster ==
  << <<PlayerA>>, <<PlayerB, PlayerA>>, <<PlayerB>>, <<PlayerA, PlayerB>> >>

Rosters(team_id) == { <<>>, ClubRoster[team_id] }

HttpErrorStatuses == {400, 500}

\* ------------------------------------------------------------ truthiness
\* bool(x) of an os.getenv result (None, "" or text) and of a list
TruthyStr(v) == v \notin {"None", ""}

TruthyList(v) == Len(v) > 0

ConfigMissingAnd(key, endpoint) == ~TruthyStr(key) /\ ~TruthyStr(endpoint)

ConfigMissing(key, endpoint) == ~TruthyStr(key) \/ ~TruthyStr(endpoint)

\* ------------------------------------------------------------ serializer
RECURSIVE JsonEscape(_)
JsonEscape(s) ==
  IF s = <<>> THEN <<>>
  ELSE (CASE Head(s) = NL   -> <<"\\", "n">>
          [] Head(s) = "\"" -> <<"\\", "\"">>
          [] Head(s) = "\\" -> <<"\\", "\\">>
          [] OTHER          -> <<Head(s)>>) \o JsonEscape(Tail(s))

JsonDumpsRaw(record) ==
  <<"{", "PlayerID:", ToString(record.PlayerID), "LastName:">>
    \o record.LastName \o <<"Team:", record.Team, "}">>

JsonDumps(record) ==
  <<"{", "PlayerID:", ToString(record.PlayerID), "LastName:">>
    \o JsonEscape(record.LastName) \o <<"Team:", record.Team, "}">>

RECURSIVE Join(_)
Join(lines) ==
  IF lines = <<>> THEN <<>>
  ELSE IF Len(lines) = 1 THEN lines[1]
  ELSE lines[1] \o <<NL>> \o Join(Tail(lines))

convert_to_line_delimited_json(data) ==
  Join([i \in 1..Len(data) |-> JsonDumps(data[i])])

\* --------------------------------------------------------------- fetcher
SetTeamDefault(player, team_name) ==
  IF player.Team = NoTeam THEN [player EXCEPT !.Team = team_name] ELSE player

SetTeam(player, team_name) == [player EXCEPT !.Team = team_name]

Tagged(team_players, team_name) ==
  [i \in 1..Len(team_players) |-> SetTeam(team_players[i], team_name)]

\* which handler of fetch_epl_data an exception raised in the loop body ends in
InnerCatchesAll(exc) == exc \in {"HTTPError", "ConnectionError"}

InnerCatches(exc) == exc = "HTTPError"

\* the inner handler: both branches log and continue with the next team
OnTeamHTTPErrorAbort(status_code) ==
  IF status_code = 400 THEN "continue" ELSE "raise"

OnTeamHTTPError(status_code) ==
  IF status_code = 400 THEN "continue" ELSE "continue"

\* the outer handlers: HTTPError and every other RequestException return []
OuterExceptNarrow(exc) ==
  IF exc = "HTTPError" THEN "return_empty" ELSE "propagate"

OuterExcept(exc) ==
  IF exc = "HTTPError" THEN "return_empty"
  ELSE IF exc = "ConnectionError" THEN "return_empty"
  ELSE "propagate"

\* ------------------------------------------------------------------ main
\* the stage main() calls after fetch_epl_data returned data
AfterFetchAlways(data) == "upload_data_to_s3"

AfterFetch(data) ==
  IF TruthyList(data) THEN "upload_data_to_s3" ELSE "create_glue_table"

\* the stage main() calls after a stage that does not branch
MainNextSwapped(stage) ==
  CASE stage = "create_s3_bucket"     -> "fetch_epl_data"
    [] stage = "create_glue_database" -> "create_glue_table"
    [] stage = "upload_data_to_s3"    -> "create_glue_table"
    [] stage = "create_glue_table"    -> "configure_athena"
    [] stage = "configure_athena"     -> "done"

MainNext(stage) ==
  CASE stage = "create_s3_bucket"     -> "create_glue_database"
    [] stage = "create_glue_database" -> "fetch_epl_data"
    [] stage = "upload_data_to_s3"    -> "create_glue_table"
    [] stage = "create_glue_table"    -> "configure_athena"
    [] stage = "configure_athena"     -> "done"

\* ------------------------------------------------------------- uploader
NoObject == [present |-> FALSE, body |-> <<>>]

PutObjectAppend(old, body) ==
  [present |-> TRUE, body |-> IF old.present THEN old.body \o <<NL>> \o body ELSE body]

PutObject(old, body) == [present |-> TRUE, body |-> body]

\* ----------------------------------------------------------------- state
VARIABLES
  api_key, epl_endpoint,    \* os.getenv results: "None", "" or a value
  pc,                       \* position of the script
  teams, ti, all_players,   \* fetch_epl_data locals (ti: index of the loop)
  response,                 \* status_code of the last response object
  epl_data,                 \* main's local
  line_delimited_data,      \* upload_data_to_s3's local
  bucket, database, table,  \* cloud: do bucket / glue database / table exist
  object,                   \* cloud: object at raw-data/epl_player_data.jsonl
  calls,                    \* network calls issued in this run, in order
  stdout,                   \* lines printed in this run
  run,                      \* number of the current run
  start                     \* cloud state the current run started from

vars == <<api_key, epl_endpoint, pc, teams, ti, all_players, response,
          epl_data, line_delimited_data, bucket, database, table, object,
          calls, stdout, run, start>>

cloud == <<bucket, database, table, object>>
fetchLocals == <<teams, ti, all_players, response>>
env == <<api_key, epl_endpoint, run, start>>

Call(op, arg, res, body) == [op |-> op, arg |-> arg, res |-> res, body |-> body]

Init ==
  /\ api_key \in {"None", "", "key"}
  /\ epl_endpoint \in {"None", "", "https://api/Teams/EPL"}
  /\ pc = "module"
  /\ teams = <<>> /\ ti = 0 /\ all_players = <<>> /\ response = 0
  /\ epl_data = <<>>
  /\ line_delimited_data = <<>>
  /\ bucket \in BOOLEAN
  /\ database \in BOOLEAN
  /\ table = FALSE
  /\ object = NoObject
  /\ calls = <<>>
  /\ stdout = <<>>
  /\ run = 1
  /\ start = [bucket |-> bucket, database |-> database, object |-> object]

\* lines 18-28: read the two settings, raise ValueError when one is missing,
\* otherwise build the clients (no call is made) and enter main()
LoadModule ==
  /\ pc = "module"
  /\ IF ConfigMissing(api_key, epl_endpoint)
       THEN pc' = "config_error" /\ stdout' = stdout
       ELSE pc' = "create_s3_bucket"
            /\ stdout' = Append(stdout, "Setting up data lake")
  /\ UNCHANGED <<cloud, fetchLocals, env, epl_data, line_delimited_data, calls>>

\* lines 30-44
create_s3_bucket ==
  /\ pc = "create_s3_bucket"
  /\ \/ \* head_bucket answers: the bucket is there
        /\ bucket
        /\ calls' = Append(calls, Call("head_bucket", 0, "ok", <<>>))
        /\ stdout' = Append(stdout, "bucket already exists")
        /\ pc' = MainNext("create_s3_bucket")
        /\ UNCHANGED bucket
     \/ \* ClientError with a code other than 404: logged
        /\ calls' = Append(calls, Call("head_bucket", 0, "403", <<>>))
        /\ stdout' = Append(stdout, "Error creating S3 bucket")
        /\ pc' = MainNext("create_s3_bucket")
        /\ UNCHANGED bucket
     \/ \* an error that is no ClientError (no endpoint, no credentials):
        \* no handler matches, it leaves create_s3_bucket and main
        /\ calls' = Append(calls, Call("head_bucket", 0, "BotoCoreError", <<>>))
        /\ stdout' = stdout
        /\ pc' = "crashed"
        /\ UNCHANGED bucket
     \/ \* ClientError 404, create_bucket succeeds
        /\ ~bucket
        /\ calls' = calls \o << Call("head_bucket", 0, "404", <<>>),
                                Call("create_bucket", 0, "ok", <<>>) >>
        /\ bucket' = TRUE
        /\ stdout' = Append(stdout, "bucket created")
        /\ pc' = MainNext("create_s3_bucket")
     \/ \* ClientError 404, create_bucket raises inside the except block
        /\ ~bucket
        /\ calls' = calls \o << Call("head_bucket", 0, "404", <<>>),
                                Call("create_bucket", 0, "ClientError", <<>>) >>
        /\ stdout' = stdout
        /\ pc' = "crashed"
        /\ UNCHANGED bucket
  /\ UNCHANGED <<database, table, object, fetchLocals, env, epl_data,
                 line_delimited_data>>

\* lines 46-57
create_glue_database ==
  /\ pc = "create_glue_database"
  /\ \/ /\ ~database
        /\ database' = TRUE
        /\ calls' = Append(calls, Call("create_database", 0, "ok", <<>>))
        /\ stdout' = Append(stdout, "database created")
     \/ /\ database
        /\ calls' = Append(calls, Call("create_database", 0, "AlreadyExists", <<>>))
        /\ stdout' = Append(stdout, "Error creating Glue database")
        /\ UNCHANGED database
     \/ /\ calls' = Append(calls, Call("create_database", 0, "error", <<>>))
        /\ stdout' = Append(stdout, "Error creating Glue database")
        /\ UNCHANGED database
  /\ pc' = MainNext("create_glue_database")
  /\ UNCHANGED <<bucket, table, object, fetchLocals, env, epl_data,
                 line_delimited_data>>

\* fetch_epl_data returns data to main, which picks the next stage (line 179)
Return(data, printed) ==
  /\ epl_data' = data
  /\ stdout' = stdout \o printed
  /\ pc' = AfterFetch(data)

\* an exception leaves the outer try block of fetch_epl_data (lines 101-106)
Raise(exc, printed) ==
  IF OuterExcept(exc) = "return_empty"
    THEN Return(<<>>, printed)
    ELSE /\ pc' = "crashed"
         /\ stdout' = stdout
         /\ UNCHANGED epl_data

\* lines 61-69: the team list request
fetch_teams ==
  /\ pc = "fetch_epl_data"
  /\ \/ /\ calls' = Append(calls, Call("get_teams", 0, "ConnectionError", <<>>))
        /\ Raise("ConnectionError", <<"Error fetching EPL data">>)
        /\ UNCHANGED fetchLocals
     \/ \E status \in HttpErrorStatuses :
          /\ calls' = Append(calls, Call("get_teams", 0, ToString(status), <<>>))
          /\ Raise("HTTPError", <<"HTTP error fetching EPL data">>)
          /\ UNCHANGED fetchLocals
     \/ \E list \in TeamLists :
          /\ calls' = Append(calls, Call("get_teams", 0, "200", list))
          /\ teams' = list
          /\ all_players' = <<>>
          /\ response' = response
          /\ IF list = <<>>
               THEN ti' = 0 /\ Return(<<>>, <<"Fetched players">>)
               ELSE ti' = 1 /\ pc' = "fetch_team" /\ stdout' = stdout
                    /\ UNCHANGED epl_data
  /\ UNCHANGED <<cloud, env, line_delimited_data>>

\* the for statement moves to the next team or the function returns (71, 98-99)
Continue(players, printed) ==
  IF ti < Len(teams)
    THEN /\ ti' = ti + 1
         /\ pc' = "fetch_team"
         /\ stdout' = stdout \o printed
         /\ UNCHANGED epl_data
    ELSE /\ ti' = ti
         /\ Return(players, printed \o <<"Fetched players">>)

\* lines 71-96: one iteration of the loop over teams
fetch_team ==
  /\ pc = "fetch_team"
  /\ LET team_id == teams[ti].TeamId
         team_name == teams[ti].Name
     IN
     \/ \* requests.get raises ConnectionError / Timeout
        /\ calls' = Append(calls, Call("get_team", team_id, "ConnectionError", <<>>))
        /\ IF InnerCatches("ConnectionError")
             THEN Continue(all_players, <<"Fetching", "HTTP error fetching data for team">>)
                  /\ UNCHANGED <<teams, all_players, response>>
             ELSE Raise("ConnectionError", <<"Fetching", "Error fetching EPL data">>)
                  /\ UNCHANGED fetchLocals
     \/ \* a response with an error status: raise_for_status raises HTTPError
        \E status \in HttpErrorStatuses :
          /\ calls' = Append(calls, Call("get_team", team_id, ToString(status), <<>>))
          /\ response' = status
          /\ IF InnerCatches("HTTPError")
               THEN IF OnTeamHTTPError(status) = "continue"
                      THEN Continue(all_players, <<"Fetching", "Skipping team">>)
                           /\ UNCHANGED <<teams, all_players>>
                      ELSE Raise("HTTPError", <<"Fetching", "HTTP error fetching EPL data">>)
                           /\ UNCHANGED <<teams, ti, all_players>>
               ELSE Raise("HTTPError", <<"Fetching", "HTTP error fetching EPL data">>)
                    /\ UNCHANGED <<teams, ti, all_players>>
     \/ \* a 200 response with the roster
        \E team_players \in Rosters(team_id) :
          /\ calls' = Append(calls, Call("get_team", team_id, "200", team_players))
          /\ response' = 200
          /\ all_players' = all_players \o Tagged(team_players, team_name)
          /\ Continue(all_players', <<"Fetching">>)
          /\ UNCHANGED teams
  /\ UNCHANGED <<cloud, env, line_delimited_data>>

\* lines 114-126
upload_data_to_s3 ==
  /\ pc = "upload_data_to_s3"
  /\ line_delimited_data' = convert_to_line_delimited_json(epl_data)
  /\ \/ /\ bucket
        /\ object' = PutObject(object, line_delimited_data')
        /\ calls' = Append(calls, Call("put_object", 0, "ok", <<>>))
        /\ stdout' = stdout \o <<"Converting", "Uploaded data to S3">>
     \/ /\ calls' = Append(calls, Call("put_object", 0, "error", <<>>))
        /\ stdout' = stdout \o <<"Converting", "Error uploading data to S3">>
        /\ UNCHANGED object
  /\ pc' = MainNext("upload_data_to_s3")
  /\ UNCHANGED <<bucket, database, table, fetchLocals, env, epl_data>>

\* lines 128-157
create_glue_table ==
  /\ pc = "create_glue_table"
  /\ \/ /\ database /\ ~table
        /\ table' = TRUE
        /\ calls' = Append(calls, Call("create_table", 0, "ok", <<>>))
        /\ stdout' = Append(stdout, "table created")
     \/ /\ calls' = Append(calls, Call("create_table", 0, "error", <<>>))
        /\ stdout' = Append(stdout, "Error creating Glue table")
        /\ UNCHANGED table
  /\ pc' = MainNext("create_glue_table")
  /\ UNCHANGED <<bucket, database, object, fetchLocals, env, epl_data,
                 line_delimited_data>>

\* lines 161-171, then line 183
configure_athena ==
  /\ pc = "configure_athena"
  /\ \/ /\ calls' = Append(calls, Call("start_query_execution", 0, "ok", <<>>))
        /\ stdout' = stdout \o <<"Athena configured", "Data lake setup complete.">>
     \/ /\ calls' = Append(calls, Call("start_query_execution", 0, "error", <<>>))
        /\ stdout' = stdout \o <<"Error configuring Athena", "Data lake setup complete.">>
  /\ pc' = MainNext("configure_athena")
  /\ UNCHANGED <<cloud, fetchLocals, env, epl_data, line_delimited_data>>

\* the script is started again: a new process, the same environment and cloud
Rerun ==
  /\ pc \in {"done", "crashed", "config_error"}
  /\ run < MaxRuns
  /\ run' = run + 1
  /\ pc' = "module"
  /\ teams' = <<>> /\ ti' = 0 /\ all_players' = <<>> /\ response' = 0
  /\ epl_data' = <<>>
  /\ line_delimited_data' = <<>>
  /\ calls' = <<>>
  /\ stdout' = <<>>
  /\ start' = [bucket |-> bucket, database |-> database, object |-> object]
  /\ UNCHANGED <<api_key, epl_endpoint, cloud>>

Next ==
  \/ LoadModule
  \/ create_s3_bucket
  \/ create_glue_database
  \/ fetch_teams
  \/ fetch_team
  \/ upload_data_to_s3
  \/ create_glue_table
  \/ configure_athena
  \/ Rerun

Spec == Init /\ [][Next]_vars

\* ------------------------------------------------- reading a run's record
Ops == { calls[i].op : i \in 1..Len(calls) }

Called(op) == \E i \in 1..Len(calls) : calls[i].op = op

IsTeamCall(c) == c.op = "get_team"

TeamCalls == SelectSeq(calls, IsTeamCall)

HttpErrorResults == { ToString(s) : s \in HttpErrorStatuses }

NameOfTeam(id) == (CHOOSE t \in { teams[i] : i \in 1..Len(teams) } : t.TeamId = id).Name

IndexOfTeam(id) == CHOOSE i \in 1..Len(teams) : teams[i].TeamId = id

\* for every record the successful roster responses returned, in order, the
\* name of the team whose request returned it
RECURSIVE OriginsOf(_)
OriginsOf(cs) ==
  IF cs = <<>> THEN <<>>
  ELSE (IF Head(cs).res = "200"
          THEN [j \in 1..Len(Head(cs).body) |-> NameOfTeam(Head(cs).arg)]
          ELSE <<>>) \o OriginsOf(Tail(cs))

Origins == OriginsOf(TeamCalls)

RECURSIVE SplitLines(_)
SplitLines(text) ==
  IF \A i \in 1..Len(text) : text[i] # NL THEN <<text>>
  ELSE LET k == CHOOSE i \in 1..Len(text) :
                  text[i] = NL /\ \A j \in 1..(i - 1) : text[j] # NL
       IN <<SubSeq(text, 1, k - 1)>> \o SplitLines(SubSeq(text, k + 1, Len(text)))

LineCount(text) == Len(SplitLines(text))

\* the value of the Team member of one serialized record
TeamOfLine(line) == IF Len(line) >= 2 THEN line[Len(line) - 1] ELSE "<malformed>"

AfterFetchPcs == {"upload_data_to_s3", "create_glue_table", "configure_athena", "done"}

Rank(c) ==
  CASE c.op = "head_bucket"           -> 1
    [] c.op = "create_bucket"         -> 2
    [] c.op = "create_database"       -> 3
    [] c.op = "get_teams"             -> 4
    [] c.op = "get_team"              -> 4 + IndexOfTeam(c.arg)
    [] c.op = "put_object"            -> 5 + Len(AllTeams)
    [] c.op = "create_table"          -> 6 + Len(AllTeams)
    [] c.op = "start_query_execution" -> 7 + Len(AllTeams)

ConfigPresent == api_key \notin {"None", ""} /\ epl_endpoint \notin {"None", ""}

\* ------------------------------------------------------------------ C1
\* C1: once the configuration is present, no provisioning error ever leaves
\* its stage: whatever the bucket probe, bucket creation, database creation,
\* upload, table creation and query statement answer, main() is never left
\* by an exception and, when the run is over, it has printed "Data lake
\* setup complete."
C1_NoErrorLeavesItsStage ==
  ConfigPresent =>
    /\ pc # "crashed"
    /\ (pc = "done" => stdout[Len(stdout)] = "Data lake setup complete.")

\* ------------------------------------------------------------------ C2
\* C2: whenever put_object is called, the endpoint returned a non-empty team
\* list and the text handed to put_object has as many lines as the
\* successful roster responses of this run returned records.
C2_LineCountEqualsPlayerCount ==
  Called("put_object") =>
    /\ teams # <<>>
    /\ LineCount(line_delimited_data) = Len(Origins)

C2_Witness ==
  /\ Called("put_object")
  /\ Len(Origins) = 3
  /\ \E i \in 1..Len(calls) : calls[i].op = "get_team" /\ calls[i].res = "200"
                                /\ \E j \in 1..Len(calls[i].body) :
                                     \E k \in 1..Len(calls[i].body[j].LastName) :
                                       calls[i].body[j].LastName[k] = NL

\* ------------------------------------------------------------------ C3
\* C3: every record accumulated by fetch_epl_data, every record it returns
\* and every line of the serialized text has as Team the Name of the team
\* whose roster request returned it, whatever Team the response carried and
\* whatever happened to the teams before it.
C3_TeamIsFetchingTeam ==
  LET origins == Origins IN
  /\ Len(all_players) = Len(origins)
  /\ \A i \in 1..Len(all_players) : all_players[i].Team = origins[i]
  /\ \A i \in 1..Len(epl_data) : epl_data[i].Team = origins[i]
  /\ Called("put_object") =>
       LET lines == SplitLines(line_delimited_data)
       IN \A i \in 1..Len(lines) :
            i <= Len(origins) /\ TeamOfLine(lines[i]) = origins[i]

C3_Witness ==
  /\ pc = "done"
  /\ Called("put_object")
  /\ Len(TeamCalls) = 2
  /\ TeamCalls[1].res = "400"
  /\ TeamCalls[2].res = "200"
  /\ \E j \in 1..Len(TeamCalls[2].body) : TeamCalls[2].body[j].Team = "Liverpool"
  /\ \A i \in 1..Len(epl_data) : epl_data[i].Team = "Chelsea"

\* ------------------------------------------------------------------ C4
\* C4: a roster request answered with an HTTP error status adds no record
\* of that team, and the loop goes on: the next team of the list is the
\* next request, or, after the last team, the function returns what it has
\* accumulated.  With teams [Arsenal, Chelsea], one Arsenal player and a 400
\* for Chelsea, the uploaded text is one line whose Team is Arsenal.
C4_HttpErrorSkipsOnlyThatTeam ==
  /\ \A i \in 1..Len(calls) :
       (calls[i].op = "get_team" /\ calls[i].res \in HttpErrorResults) =>
         LET k == IndexOfTeam(calls[i].arg) IN
         /\ \A j \in 1..Len(all_players) :
              all_players[j].Team # NameOfTeam(calls[i].arg)
         /\ pc # "crashed"
         /\ IF k < Len(teams)
              THEN IF i = Len(calls)
                     THEN pc = "fetch_team" /\ ti = k + 1
                     ELSE /\ calls[i + 1].op = "get_team"
                          /\ calls[i + 1].arg = teams[k + 1].TeamId
              ELSE pc \in AfterFetchPcs /\ epl_data = all_players
  /\ ( /\ Called("put_object")
       /\ Len(teams) = 2
       /\ teams[1].Name = "Arsenal" /\ teams[2].Name = "Chelsea"
       /\ Len(TeamCalls) = 2
       /\ TeamCalls[1].res = "200" /\ Len(TeamCalls[1].body) = 1
       /\ TeamCalls[2].res = "400" )
     => /\ LineCount(line_delimited_data) = 1
        /\ TeamOfLine(line_delimited_data) = "Arsenal"

C4_Witness ==
  /\ pc = "done"
  /\ Len(TeamCalls) = 2
  /\ teams[1].Name = "Arsenal" /\ teams[2].Name = "Chelsea"
  /\ TeamCalls[1].res = "200" /\ Len(TeamCalls[1].body) = 1
  /\ TeamCalls[2].res = "400"
  /\ calls[Len(calls) - 2] = Call("put_object", 0, "ok", <<>>)
  /\ object.body = line_delimited_data

\* ------------------------------------------------------------------ C5
\* C5: when fetch_epl_data has returned the empty sequence, put_object is
\* not called in that run, main() goes on with create_glue_table, and a
\* finished run has called create_table and start_query_execution.
C5_EmptyFetchSkipsUpload ==
  (Called("get_teams") /\ pc # "fetch_team" /\ epl_data = <<>>) =>
    /\ ~Called("put_object")
    /\ line_delimited_data = <<>>
    /\ object = start.object
    /\ pc \in {"create_glue_table", "configure_athena", "done"}
    /\ pc \in {"configure_athena", "done"} => Called("create_table")
    /\ pc = "done" => Called("start_query_execution")

C5_Witness ==
  /\ pc = "done"
  /\ epl_data = <<>>
  /\ Len(TeamCalls) = 2
  /\ TeamCalls[1].res = "500"
  /\ TeamCalls[2].res = "200" /\ TeamCalls[2].body = <<>>
  /\ Called("create_table") /\ Called("start_query_execution")

\* ------------------------------------------------------------------ C6
\* C6: a run that starts with the bucket, the database and the object in
\* place and whose probe finds the bucket never calls create_bucket, gets
\* no "created" answer from create_database (the error is swallowed and the
\* next stage follows) and is not left by an exception; a finished run has
\* printed the completion line; and the object is the text of this run's
\* put_object when that call succeeded, and the object the run started with
\* otherwise (never the two joined).
SecondRunCase ==
  /\ run >= 2
  /\ start.bucket /\ start.database /\ start.object.present
  /\ Len(calls) >= 1 => calls[1].res = "ok"

C6_RerunOverwrites ==
  SecondRunCase =>
    /\ ~Called("create_bucket")
    /\ pc # "crashed"
    /\ bucket /\ database
    /\ Len(calls) >= 2 =>
         /\ calls[2].op = "create_database"
         /\ calls[2].res \in {"AlreadyExists", "error"}
         /\ pc # "create_glue_database"
    /\ pc = "done" => stdout[Len(stdout)] = "Data lake setup complete."
    /\ IF \E i \in 1..Len(calls) : calls[i].op = "put_object" /\ calls[i].res = "ok"
         THEN object = [present |-> TRUE, body |-> line_delimited_data]
         ELSE object = start.object

C6_Witness ==
  /\ SecondRunCase
  /\ pc = "done"
  /\ calls[2].res = "AlreadyExists"
  /\ \E i \in 1..Len(calls) : calls[i].op = "put_object" /\ calls[i].res = "ok"
  /\ object.body # start.object.body
  /\ Len(object.body) < Len(start.object.body)

\* ------------------------------------------------------------------ C7
\* C7: with the API key or the endpoint absent or empty, the script stops
\* at the configuration check: no client call and no HTTP GET is issued,
\* nothing is printed and the cloud is left as the run found it.
C7_MissingConfigStopsFirst ==
  ~ConfigPresent =>
    /\ pc \in {"module", "config_error"}
    /\ calls = <<>>
    /\ stdout = <<>>
    /\ bucket = start.bucket /\ database = start.database /\ object = start.object
    /\ ~table

C7_Witness ==
  /\ pc = "config_error"
  /\ api_key = "key"
  /\ epl_endpoint = ""
  /\ run = 2

\* ------------------------------------------------------------------ C8
\* C8: a connection failure of the team-list request or of a roster request
\* does not leave fetch_epl_data: the function returns the empty sequence
\* and main() goes on as for "no players" - no put_object, then
\* create_glue_table and configure_athena.
C8_ConnectionFailureReturnsEmpty ==
  (\E i \in 1..Len(calls) : calls[i].res = "ConnectionError") =>
    /\ pc \in {"create_glue_table", "configure_athena", "done"}
    /\ epl_data = <<>>
    /\ "Error fetching EPL data" \in { stdout[j] : j \in 1..Len(stdout) }
    /\ ~Called("put_object")
    /\ pc = "done" => Called("create_table") /\ Called("start_query_execution")

C8_Witness ==
  /\ pc = "done"
  /\ \E i \in 1..Len(calls) : calls[i].op = "get_teams" /\ calls[i].res = "ConnectionError"
  /\ Called("create_table") /\ Called("start_query_execution")

\* ------------------------------------------------------------------ C9
\* C9: the calls of a run are made in the order bucket probe (and creation),
\* database, team list, rosters in team-list order, upload, table, query
\* statement, each at most once (every call is of a later stage than the
\* call before it); the position of main() tells which call
\* was the last; a finished run has made every call but possibly the
\* upload, which it made exactly when the fetch result was non-empty -
\* whatever the logged outcome of the bucket and database stages.
C9_StagesInOrder ==
  /\ \A i \in 1..(Len(calls) - 1) : Rank(calls[i]) < Rank(calls[i + 1])
  /\ LET teamCalls == TeamCalls
     IN \A i \in 1..Len(teamCalls) : teamCalls[i].arg = teams[i].TeamId
  /\ pc \in {"module", "config_error", "create_s3_bucket"} => calls = <<>>
  /\ pc = "create_glue_database" => calls[Len(calls)].op \in {"head_bucket", "create_bucket"}
  /\ pc = "fetch_epl_data" => calls[Len(calls)].op = "create_database"
  /\ pc = "fetch_team" => calls[Len(calls)].op \in {"get_teams", "get_team"}
  /\ pc = "upload_data_to_s3" => calls[Len(calls)].op = "get_team" /\ epl_data # <<>>
  /\ pc = "create_glue_table" =>
       \/ calls[Len(calls)].op = "put_object" /\ epl_data # <<>>
       \/ calls[Len(calls)].op \in {"get_teams", "get_team"} /\ epl_data = <<>>
  /\ pc = "configure_athena" => calls[Len(calls)].op = "create_table"
  /\ pc = "done" =>
       /\ calls[Len(calls)].op = "start_query_execution"
       /\ {"head_bucket", "create_database", "get_teams", "create_table"} \subseteq Ops
       /\ Called("put_object") <=> epl_data # <<>>

C9_Witness ==
  /\ pc = "done"
  /\ calls[1].res = "403"
  /\ calls[2].op = "create_database" /\ calls[2].res = "error"
  /\ Len(TeamCalls) = 2
  /\ Called("put_object")
  /\ Len(calls) = 8

\* ------------------------------------------------------------------ C10
\* C10: when the roster request of a team fails with a connection error,
\* the players accumulated from the teams before it are dropped: that
\* request is the last roster request of the run, the function returns the
\* empty sequence and put_object is not called.
C10_ConnectionErrorDropsEarlierPlayers ==
  \A i \in 1..Len(TeamCalls) :
    TeamCalls[i].res = "ConnectionError" =>
      /\ i = Len(TeamCalls)
      /\ epl_data = <<>>
      /\ Len(all_players) = Len(Origins)
      /\ pc \in {"create_glue_table", "configure_athena", "done"}
      /\ ~Called("put_object")
      /\ object = start.object

C10_Witness ==
  /\ pc = "done"
  /\ Len(teams) = 2
  /\ Len(TeamCalls) = 2
  /\ TeamCalls[1].res = "200"
  /\ TeamCalls[2].res = "ConnectionError"
  /\ Len(all_players) = 1
  /\ epl_data = <<>>
  /\ ~Called("put_object")

====
